---- MODULE Spec2Model ----
(***************************************************************************)
(* Model of the ledger reconciliation, de-duplication, import and log      *)
(* parsing scripts of sandwichsync.                                        *)
(*                                                                         *)
(*   Spec       import_missing_data.py: one reconcile-and-apply run reads  *)
(*              cleaned_totals.csv and the sandwich_collections table,     *)
(*              lists the discrepancies and inserts 'Data Reconciliation'  *)
(*              rows; another writer may insert rows between runs.         *)
(*   DedupSpec  the 'og-duplicates' branch that                            *)
(*              add_og_duplicates_cleaning.py installs in the clean-       *)
(*              duplicates endpoint, followed by the endpoint's deletion.  *)
(*   ImportSpec import_group_donations.py, import_pre_location_logs.py and *)
(*              import_master_spreadsheet.py, each reading its file and    *)
(*              inserting into sandwich_collections.                       *)
(*   ParserSpec complete_rtf_parser.py: parse_complete_rtf_log over the    *)
(*              week entries of the RTF log.                               *)
(*   RtfSpec    verify_collections.py: parse_rtf_log over the host headers *)
(*              and week entries of the RTF log.                           *)
(*   MigrateSpec migrate_driver_notes.py: main and apply_migration on the  *)
(*              drivers table.                                             *)
(*   RestoreSpec restore_group_conversations.py: runs of the restore over  *)
(*              the two backup files and the conversations table.          *)
(*                                                                         *)
(* Calendar days are day numbers: strftime('%Y-%m-%d') and the DATE column *)
(* are one-to-one on calendar days.  created_at / datetime.now() is left   *)
(* out of the rows, nothing reads it.                                      *)
(***************************************************************************)
EXTENDS Integers, Sequences, FiniteSets, TLC

\* ------------------------------------------------------------------ bounds
MaxRows == 2        \* free rows of cleaned_totals.csv
MaxWrites == 1      \* rows another writer inserts into sandwich_collections
MaxCollections == 3 \* rows the clean-duplicates endpoint loads
MaxImportRows == 2  \* rows of a file an import script reads
MaxLogRuns == 1     \* runs of import_pre_location_logs
MaxEntries == 2     \* 'Week n (date): count sandwiches' entries of the RTF log
MaxItems == 5       \* headers and week entries of the RTF log parse_rtf_log reads
MaxBackup == 2      \* entries of each of the two backup files
MaxRestoreRuns == 2 \* runs of restore_group_conversations
MaxParts == 2       \* ';'-separated parts of a driver's notes

\* ------------------------------------------------- constants of the script
ReportThreshold == 10    \* abs(difference) > 10
AdjustThreshold == 100   \* disc['difference'] > 100
TopN == 20               \* discrepancies[:20]

\* ---------------------------------------------------------------- helpers
Min(a, b) == IF a <= b THEN a ELSE b

abs(x) == IF x < 0 THEN -x ELSE x

RECURSIVE SumSeq(_)
SumSeq(s) == IF s = <<>> THEN 0 ELSE Head(s) + SumSeq(Tail(s))

Prefix(s, n) == SubSeq(s, 1, Min(n, Len(s)))

\* Optional values: <<>> is NaN / NaT / NULL, <<v>> is the value v.
NA == <<>>
Some(v) == <<v>>
isna(o) == o = <<>>

\* ------------------------------------------------------- the input domains
Dates == {1, 2}
Totals == {10, 11, 101}

\* A row of cleaned_totals.csv: the 'Date' cell already as what
\* pd.to_datetime(errors='coerce') makes of it, the 'Total # of Sandwiches'
\* cell as what pd.to_numeric(errors='coerce') makes of it, and 'VALID WEEK?'.
GoodRows == [Date : {Some(d) : d \in Dates}, Total : {Some(t) : t \in Totals}, VALID : {1}]
BadRows ==
    { [Date |-> Some(1), Total |-> Some(101), VALID |-> 0],
      [Date |-> Some(1), Total |-> NA,        VALID |-> 1],
      [Date |-> NA,      Total |-> Some(101), VALID |-> 1] }
CsvRows == GoodRows \cup BadRows

\* A long sheet: TopN - 1 further weeks, one row each, 101 sandwiches each.
PadRows == [i \in 1..(TopN - 1) |-> [Date |-> Some(2 + i), Total |-> Some(101), VALID |-> 1]]

RECURSIVE SeqsUpTo(_, _)
SeqsUpTo(S, n) ==
    IF n = 0 THEN {<<>>}
    ELSE LET shorter == SeqsUpTo(S, n - 1)
         IN  shorter \cup {Append(s, x) : s \in {t \in shorter : Len(t) = n - 1}, x \in S}

CsvFiles ==
    LET free == SeqsUpTo(CsvRows, MaxRows)
    IN  free \cup {f \o PadRows : f \in SeqsUpTo(GoodRows, MaxRows)}

\* group_collections: a JSON array of entries; sandwichCount is <<n>> when it
\* is present and matches '^[0-9]+$', <<>> otherwise.
GroupBreakdown == << [name |-> "Group A", sandwichCount |-> Some(50)],
                     [name |-> "Group B", sandwichCount |-> NA] >>

\* Rows other scripts write into sandwich_collections.
OtherRows ==
    { [collection_date |-> 1, host_name |-> "Site", individual_sandwiches |-> 1,
       group_collections |-> <<>>, notes |-> 0],
      [collection_date |-> 2, host_name |-> "Site", individual_sandwiches |-> 100,
       group_collections |-> GroupBreakdown, notes |-> 0] }

\* ------------------------------------------------------------------ state
VARIABLES
    df,                    \* the rows of attached_assets/cleaned_totals.csv
    sandwich_collections,  \* the table, in insertion order
    writes,                \* rows inserted by other writers so far
    ran,                   \* import_missing_data has run at least once
    table_before,          \* the table as the last run read it
    table_start,           \* the table as the last insert of another script left it
    discrepancies,         \* the last run's sorted discrepancy list
    attempted,             \* the discrepancies the last run executed an INSERT for
    committed,             \* the rows the last run's conn.commit() made durable
    adjustments_made,      \* the last run's report
    total_adjusted,        \* the last run's report
    answers,               \* what the last run read from the operator with input()
    complete,              \* the last run committed all it tried and the cap cut nothing
    touched,               \* another writer changed the table since the last run
    repeat,                \* the last run directly followed a complete run
    csv_file,              \* ImportSpec: the rows of the group donations CSV
    excel_file,            \* ImportSpec: the rows of the imported Excel sheet
    last_import,           \* ImportSpec: the import script that ran last, and how it ended
    imported_count,        \* ImportSpec: the last import's report
    total_sandwiches,      \* ImportSpec: the last import's report
    skipped_count,         \* ImportSpec: the last import's report
    log_runs,              \* ImportSpec: runs of import_pre_location_logs so far
    content,               \* ParserSpec: the week entries of the RTF log, in text order
    weekly_totals,         \* ParserSpec: what parse_complete_rtf_log returned
    could_not_parse,       \* ParserSpec: the matches it printed as 'Could not parse'
    parsed,                \* ParserSpec: parse_complete_rtf_log has returned
    rtf_content,           \* RtfSpec: the headers and week entries of the RTF log
    rtf_collections,       \* RtfSpec: what parse_rtf_log returned
    rtf_printed,           \* RtfSpec: the entries printed as 'Could not parse date'
    rtf_fallback,          \* RtfSpec: the fallback branch ran
    rtf_parsed,            \* RtfSpec: parse_rtf_log has returned
    drivers,               \* MigrateSpec: the drivers table, ordered by id
    drivers_before,        \* MigrateSpec: the table as the last apply_migration read it
    updated_count,         \* MigrateSpec: the last apply_migration's report
    migration,             \* MigrateSpec: how the last run of main ended
    conversations,         \* RestoreSpec: the conversations table, ordered by id
    conversation_participants, \* RestoreSpec: the participants table
    group_backup,          \* RestoreSpec: group_threads_backup_20250706.json, NA if not found
    conversation_backup,   \* RestoreSpec: conversation_threads_backup_20250706.json, NA if not found
    restored_groups,       \* RestoreSpec: the last run's report
    restore_runs,          \* RestoreSpec: runs of restore_group_conversations so far
    collections,           \* DedupSpec: the rows the endpoint has loaded
    collectionsToDelete,   \* DedupSpec: the deletion list of the last pass
    stage,                 \* DedupSpec: "loaded", "listed" or "deleted"
    rerun                  \* DedupSpec: the last pass ran on what a deletion left

reconVars == << df, sandwich_collections, writes, ran, table_before, table_start,
                discrepancies,
                attempted, committed, adjustments_made, total_adjusted, answers, complete,
                touched, repeat >>
dedupVars == << collections, collectionsToDelete, stage, rerun >>
importVars == << csv_file, excel_file, last_import, imported_count, total_sandwiches,
                 skipped_count, log_runs >>
parserVars == << content, weekly_totals, could_not_parse, parsed >>
rtfVars == << rtf_content, rtf_collections, rtf_printed, rtf_fallback, rtf_parsed >>
driverVars == << drivers, drivers_before, updated_count, migration >>
restoreVars == << conversations, conversation_participants, group_backup,
                  conversation_backup, restored_groups, restore_runs >>
toolVars == << rtfVars, driverVars, restoreVars >>
vars == << reconVars, dedupVars, importVars, parserVars, toolVars >>

\* ----------------------------------------------- get_database_totals_by_date
RowsOn(table, d) == SelectSeq(table, LAMBDA r : r.collection_date = d)

\* SELECT COALESCE(SUM((value->>'sandwichCount')::int), 0) ... WHERE it is digits
group_sum(gc) ==
    SumSeq([i \in 1..Len(gc) |->
              IF isna(gc[i].sandwichCount) THEN 0 ELSE gc[i].sandwichCount[1]])

\* Mutant: the scan leaves out earlier adjustments (host_name NOT LIKE
\* '%Reconciliation%').
get_database_totals_unadjusted(table) ==
    [d \in {table[i].collection_date : i \in DOMAIN table} |->
        LET rows == SelectSeq(RowsOn(table, d), LAMBDA r : r.host_name # "Data Reconciliation")
        IN  SumSeq([i \in 1..Len(rows) |-> rows[i].individual_sandwiches])
            + SumSeq([i \in 1..Len(rows) |-> group_sum(rows[i].group_collections)])]

\* SUM(individual_sandwiches) + SUM(CASE ... END) ... GROUP BY collection_date,
\* as the dict db_totals.
get_database_totals_by_date(table) ==
    [d \in {table[i].collection_date : i \in DOMAIN table} |->
        LET rows == RowsOn(table, d)
        IN  SumSeq([i \in 1..Len(rows) |-> rows[i].individual_sandwiches])
            + SumSeq([i \in 1..Len(rows) |-> group_sum(rows[i].group_collections)])]

\* Mutant: the lookup key never matches a key of the dict.
get_miss(db_totals, d) == 0

\* dict.get(key, 0)
get(db_totals, d) == IF d \in DOMAIN db_totals THEN db_totals[d] ELSE 0

\* --------------------------------------------------------- import_missing_data
\* Mutant: a total that does not coerce counts as 0.
valid_weeks_fillna(csv) ==
    LET marked == SelectSeq(csv, LAMBDA r : r.VALID = 1)
    IN  [i \in 1..Len(marked) |->
            IF isna(marked[i].Total) THEN [marked[i] EXCEPT !.Total = Some(0)] ELSE marked[i]]

\* df[df['VALID WEEK?'] == 1.0].dropna(subset=['Total_numeric'])
valid_weeks(csv) == SelectSeq(csv, LAMBDA r : r.VALID = 1 /\ ~isna(r.Total))

\* if abs(difference) > 10
Significant(difference) == abs(difference) > ReportThreshold

\* Mutant: rows whose date the table lacks are skipped.
Analyze_known_dates(csv, db_totals) ==
    LET dated == SelectSeq(csv, LAMBDA r : r.VALID = 1 /\ ~isna(r.Total) /\ ~isna(r.Date))
        all == [i \in 1..Len(dated) |->
                  [date |-> dated[i].Date[1],
                   spreadsheet_total |-> dated[i].Total[1],
                   database_total |-> IF dated[i].Date[1] \in DOMAIN db_totals
                                      THEN db_totals[dated[i].Date[1]] ELSE 0,
                   difference |-> dated[i].Total[1]
                                  - (IF dated[i].Date[1] \in DOMAIN db_totals
                                     THEN db_totals[dated[i].Date[1]] ELSE 0)]]
    IN  SelectSeq(all, LAMBDA d : d.date \in DOMAIN db_totals
                                  /\ abs(d.difference) > ReportThreshold)

\* the loop over valid_weeks.iterrows(): one entry per row, never per date
Analyze(csv, db_totals) ==
    LET dated == SelectSeq(valid_weeks(csv), LAMBDA r : ~isna(r.Date))
        all == [i \in 1..Len(dated) |->
                  [date |-> dated[i].Date[1],
                   spreadsheet_total |-> dated[i].Total[1],
                   database_total |-> get(db_totals, dated[i].Date[1]),
                   difference |-> dated[i].Total[1] - get(db_totals, dated[i].Date[1])]]
    IN  SelectSeq(all, LAMBDA d : Significant(d.difference))

\* Mutant: key=lambda x: abs(x['difference'])
SortKey_abs(d) == abs(d.difference)

\* key=lambda x: x['difference']
SortKey(d) == d.difference

\* list.sort(key=..., reverse=True): descending and stable.  Entry i goes
\* behind every entry with a larger key and every earlier entry with its key.
Rank(s, i) ==
    1 + Cardinality({j \in DOMAIN s : SortKey(s[j]) > SortKey(s[i])})
      + Cardinality({j \in 1..(i - 1) : SortKey(s[j]) = SortKey(s[i])})

SortDesc(s) ==
    CHOOSE sorted \in
        { [p \in 1..Len(s) |-> s[CHOOSE i \in DOMAIN s : rank[i] = p]] :
              rank \in {[i \in DOMAIN s |-> Rank(s, i)]} } : TRUE

\* Mutant: one entry too many.
Top_one_more(disc) == SubSeq(disc, 1, IF Len(disc) <= TopN THEN Len(disc) ELSE TopN + 1)

\* discrepancies[:20]
Top(disc) == Prefix(disc, TopN)

\* Mutant: abs(disc['difference']) > 100
ShouldAdjust_abs(d) == abs(d.difference) > AdjustThreshold

\* Mutant: disc['difference'] >= 100
ShouldAdjust_ge(d) == d.difference >= AdjustThreshold

\* if disc['difference'] > 100
ShouldAdjust(d) == d.difference > AdjustThreshold

\* the VALUES of the INSERT
AdjustmentRow(d) ==
    [collection_date |-> d.date, host_name |-> "Data Reconciliation",
     individual_sandwiches |-> d.difference, group_collections |-> <<>>,
     notes |-> d.spreadsheet_total]

\* Mutant: an upsert, the new row of a date replaces the rows of that date.
INSERT_replacing(table, rows) ==
    LET all == table \o rows
        last == SelectSeq([i \in 1..Len(all) |-> i],
                          LAMBDA i : \A j \in (i + 1)..Len(all) :
                                        j > Len(table)
                                        => all[j].collection_date # all[i].collection_date)
    IN  [n \in 1..Len(last) |-> all[last[n]]]

\* INSERT INTO sandwich_collections (...) VALUES (...), once per row
INSERT(table, rows) == table \o rows

\* How the batch of INSERTs went.  at = 0: every cursor.execute succeeded.
\* at = k > 0: the k-th cursor.execute raised a database error.  The except
\* clause swallows it, but the connection's transaction is then aborted:
\* every later execute raises as well and conn.commit() commits nothing.
FailPoints == {0, 1, 2}

Executed(tried, at) == IF at = 0 THEN tried ELSE SubSeq(tried, 1, at - 1)

Durable(tried, at) == IF at = 0 THEN tried ELSE <<>>

import_missing_data ==
    \E db_totals \in {get_database_totals_by_date(sandwich_collections)} :
    \E found \in {Analyze(df, db_totals)} :
    \E disc \in {SortDesc(found)} :
    \E tried \in {SelectSeq(Top(disc), ShouldAdjust)} :
    \E at \in FailPoints :
        LET done == Executed(tried, at)
            kept == Durable(tried, at)
            rows == [i \in 1..Len(kept) |-> AdjustmentRow(kept[i])]
            cut == \E i \in (TopN + 1)..Len(disc) : ShouldAdjust(disc[i])
        IN  /\ at <= Len(tried)
            /\ table_before' = sandwich_collections
            /\ discrepancies' = disc
            /\ attempted' = tried
            /\ committed' = rows
            /\ sandwich_collections' = INSERT(sandwich_collections, rows)
            /\ adjustments_made' = Len(done)
            /\ total_adjusted' = SumSeq([i \in 1..Len(done) |-> done[i].difference])
            /\ answers' = <<>>
            /\ repeat' = (ran /\ complete /\ ~touched)
            /\ ran' = TRUE
            /\ complete' = (at = 0 /\ ~cut)
            /\ touched' = FALSE
            /\ UNCHANGED << df, writes, table_start, dedupVars, importVars, parserVars,
                            toolVars >>

\* Another script (an import) commits one row between two runs.
OtherWriter ==
    \E r \in OtherRows :
        /\ writes < MaxWrites
        /\ writes' = writes + 1
        /\ sandwich_collections' = Append(sandwich_collections, r)
        /\ table_start' = Append(sandwich_collections, r)
        /\ touched' = TRUE
        /\ UNCHANGED << df, ran, table_before, discrepancies, attempted, committed,
                        adjustments_made, total_adjusted, answers, complete, repeat,
                        dedupVars, importVars, parserVars, toolVars >>

ReconInit ==
    /\ sandwich_collections = <<>>
    /\ writes = 0
    /\ ran = FALSE
    /\ table_before = <<>>
    /\ table_start = <<>>
    /\ discrepancies = <<>>
    /\ attempted = <<>>
    /\ committed = <<>>
    /\ adjustments_made = 0
    /\ total_adjusted = 0
    /\ answers = <<>>
    /\ complete = FALSE
    /\ touched = FALSE
    /\ repeat = FALSE

DedupIdle ==
    /\ collections = <<>>
    /\ collectionsToDelete = <<>>
    /\ stage = "loaded"
    /\ rerun = FALSE

ImportIdle ==
    /\ csv_file = <<>>
    /\ excel_file = <<>>
    /\ last_import = "none"
    /\ imported_count = 0
    /\ total_sandwiches = 0
    /\ skipped_count = 0
    /\ log_runs = 0

ParserIdle ==
    /\ content = <<>>
    /\ weekly_totals = <<>>
    /\ could_not_parse = <<>>
    /\ parsed = FALSE

RtfIdle ==
    /\ rtf_content = <<>>
    /\ rtf_collections = <<>>
    /\ rtf_printed = <<>>
    /\ rtf_fallback = FALSE
    /\ rtf_parsed = FALSE

DriversIdle ==
    /\ drivers = <<>>
    /\ drivers_before = <<>>
    /\ updated_count = 0
    /\ migration = "none"

RestoreIdle ==
    /\ conversations = <<>>
    /\ conversation_participants = <<>>
    /\ group_backup = NA
    /\ conversation_backup = NA
    /\ restored_groups = 0
    /\ restore_runs = 0

ToolsIdle == RtfIdle /\ DriversIdle /\ RestoreIdle

Init == df \in CsvFiles /\ ReconInit /\ DedupIdle /\ ImportIdle /\ ParserIdle /\ ToolsIdle

Next == import_missing_data \/ OtherWriter

Spec == Init /\ [][Next]_vars

\* ------------------------------------------------- the 'og-duplicates' mode
OG == "OG Sandwich Project"

\* Host names.  "" stands for the empty, blank and null names and for the
\* names containing 'unknown' or 'no location'.
HostNames == {OG, "", "Decatur"}

\* (collectionDate, individualSandwiches, sub-group sandwiches) of an event
Events == { <<1, 50, 0>>, <<1, 30, 20>>, <<1, 30, 0>>, <<2, 50, 0>> }

\* submittedAt of the row at position i: oldest first, newest first, all at
\* the same instant, or the second row the newest.
StampOrders == {"ascending", "descending", "same", "second"}
Stamp(order, i) ==
    CASE order = "ascending" -> i
      [] order = "descending" -> 0 - i
      [] order = "same" -> 0
      [] order = "second" -> IF i = 2 THEN 9 ELSE i

Loads ==
    { [i \in 1..Len(shape) |->
          [id |-> i, hostName |-> shape[i][1], collectionDate |-> shape[i][2][1],
           individualSandwiches |-> shape[i][2][2], groupSandwiches |-> shape[i][2][3],
           submittedAt |-> Stamp(order, i)]] :
      shape \in SeqsUpTo(HostNames \X Events, MaxCollections), order \in StampOrders }

\* collections.filter(c => c.hostName === 'OG Sandwich Project')
ogCollections(cs) == SelectSeq(cs, LAMBDA c : c.hostName = OG)

\* collections.filter(c => c.hostName !== 'OG Sandwich Project' && (blank or unknown))
earlyCollections(cs) == SelectSeq(cs, LAMBDA c : c.hostName # OG /\ c.hostName = "")

\* `${c.collectionDate}-${c.individualSandwiches}`: an ISO date, a dash and
\* the decimal count; two such strings are equal exactly when both parts are.
key(c) == << c.collectionDate, c.individualSandwiches >>

\* ogMap: the keys in order of first occurrence, and each key's group
ogKeys(ogs) ==
    LET firsts == SelectSeq([i \in 1..Len(ogs) |-> i],
                            LAMBDA i : \A j \in 1..(i - 1) : key(ogs[j]) # key(ogs[i]))
    IN  [n \in 1..Len(firsts) |-> key(ogs[firsts[n]])]

ogGroup(ogs, k) == SelectSeq(ogs, LAMBDA c : key(c) = k)

\* Mutant: the sort the other way round, oldest first.
Newer_oldest_first(g, i) ==
    1 + Cardinality({j \in DOMAIN g : g[j].submittedAt < g[i].submittedAt})
      + Cardinality({j \in 1..(i - 1) : g[j].submittedAt = g[i].submittedAt})

\* ogGroup.sort((a, b) => new Date(b.submittedAt) - new Date(a.submittedAt)):
\* newest first, rows of one instant in their order in the group
Newer(g, i) ==
    1 + Cardinality({j \in DOMAIN g : g[j].submittedAt > g[i].submittedAt})
      + Cardinality({j \in 1..(i - 1) : g[j].submittedAt = g[i].submittedAt})

sorted(g) ==
    CHOOSE out \in
        { [p \in 1..Len(g) |-> g[CHOOSE i \in DOMAIN g : place[i] = p]] :
              place \in {[i \in DOMAIN g |-> Newer(g, i)]} } : TRUE

\* Mutant: sorted.slice(0, 1)
slice_first(g) == SubSeq(g, 1, 1)

\* sorted.slice(1)
slice1(g) == SubSeq(g, 2, Len(g))

\* Mutant: an early row is pushed once for every OG row it matches.
RECURSIVE earlyMatches_per_og(_, _)
earlyMatches_per_og(earlies, ogs) ==
    IF earlies = <<>> THEN <<>>
    ELSE LET hits == SelectSeq(ogs, LAMBDA o : key(o) = key(Head(earlies)))
         IN  [i \in 1..Len(hits) |-> Head(earlies)] \o earlyMatches_per_og(Tail(earlies), ogs)

\* Mutant: an early row is pushed only when it is older than an OG row it
\* matches.
earlyMatches_if_older(earlies, ogs) ==
    SelectSeq(earlies, LAMBDA e : \E i \in DOMAIN ogs :
                                     key(ogs[i]) = key(e) /\ e.submittedAt < ogs[i].submittedAt)

\* earlyCollections.forEach(early => { if (ogMap.has(key)) collectionsToDelete.push(early) })
earlyMatches(earlies, ogs) ==
    SelectSeq(earlies, LAMBDA e : \E i \in DOMAIN ogs : key(ogs[i]) = key(e))

\* ogMap.forEach(ogGroup => { if (ogGroup.length > 1) collectionsToDelete.push(...sorted.slice(1)) })
RECURSIVE olderOgs(_, _)
olderOgs(ogs, keys) ==
    IF keys = <<>> THEN <<>>
    ELSE LET g == ogGroup(ogs, Head(keys))
         IN  (IF Len(g) > 1 THEN slice1(sorted(g)) ELSE <<>>) \o olderOgs(ogs, Tail(keys))

\* the whole branch: what it pushes on collectionsToDelete
og_cleaning_code(cs) ==
    CHOOSE list \in
        { earlyMatches(earlies, ogs) \o olderOgs(ogs, ogKeys(ogs)) :
              ogs \in {ogCollections(cs)}, earlies \in {earlyCollections(cs)} } : TRUE

\* A request to the endpoint in mode 'og-duplicates', up to the deletion.
CleanDuplicates ==
    /\ stage \in {"loaded", "deleted"}
    /\ collectionsToDelete' = og_cleaning_code(collections)
    /\ rerun' = (stage = "deleted")
    /\ stage' = "listed"
    /\ UNCHANGED << collections, reconVars, importVars, parserVars, toolVars >>

\* The store deletes the listed rows, and no other.
DeleteListed ==
    /\ stage = "listed"
    /\ collections' = SelectSeq(collections,
                         LAMBDA c : \A i \in DOMAIN collectionsToDelete :
                                       collectionsToDelete[i].id # c.id)
    /\ stage' = "deleted"
    /\ UNCHANGED << collectionsToDelete, rerun, reconVars, importVars, parserVars, toolVars >>

DedupInit ==
    /\ df = <<>>
    /\ ReconInit
    /\ ImportIdle
    /\ ParserIdle
    /\ ToolsIdle
    /\ collections \in Loads
    /\ collectionsToDelete = <<>>
    /\ stage = "loaded"
    /\ rerun = FALSE

DedupNext == CleanDuplicates \/ DeleteListed

DedupSpec == DedupInit /\ [][DedupNext]_vars

\* ------------------------------------------------------ the import scripts
\* Rows of 'missing sandwiches groups.csv': the 'Collection Date' and the
\* 'Individual Sandwiches' text; NA stands for a text int() does not accept.
GroupCsvRows ==
    { [Collection_Date |-> d, Individual_Sandwiches |-> Some(n)] : d \in Dates, n \in {-5, 40} }
    \cup { [Collection_Date |-> 1, Individual_Sandwiches |-> NA] }

\* Rows of an Excel sheet with the columns 'Date' and 'Total # of Sandwiches';
\* NA stands for a missing cell and for one that does not coerce.
ExcelRows ==
    { [Date |-> Some(1), Total |-> Some(40)], [Date |-> Some(1), Total |-> Some(-5)],
      [Date |-> NA, Total |-> Some(40)], [Date |-> Some(2), Total |-> NA] }

StoredRow(d, host, n) ==
    [collection_date |-> d, host_name |-> host, individual_sandwiches |-> n,
     group_collections |-> <<>>, notes |-> 0]

\* SELECT id FROM sandwich_collections WHERE collection_date = %s AND
\* host_name = %s AND individual_sandwiches = %s
fetchone(table, d, host, n) ==
    \E k \in DOMAIN table :
       /\ table[k].collection_date = d
       /\ table[k].host_name = host
       /\ table[k].individual_sandwiches = n

\* Mutant: the SELECT sees only the rows stored before the run.
RECURSIVE group_rows_snapshot(_, _, _)
group_rows_snapshot(acc, rows, i) ==
    IF i > Len(rows) THEN acc
    ELSE LET individual_sandwiches == rows[i].Individual_Sandwiches[1]
             collection_date == rows[i].Collection_Date
         IN  IF fetchone(SubSeq(acc.table, 1, Len(acc.table) - acc.imported_count),
                         collection_date, "Groups", individual_sandwiches)
             THEN group_rows_snapshot(acc, rows, i + 1)
             ELSE group_rows_snapshot(
                      [table |-> Append(acc.table,
                                        StoredRow(collection_date, "Groups", individual_sandwiches)),
                       imported_count |-> acc.imported_count + 1,
                       total_sandwiches |-> acc.total_sandwiches + individual_sandwiches],
                      rows, i + 1)

\* for row in csv_reader: the SELECT sees the rows inserted earlier in the loop
RECURSIVE group_rows(_, _, _)
group_rows(acc, rows, i) ==
    IF i > Len(rows) THEN acc
    ELSE LET individual_sandwiches == rows[i].Individual_Sandwiches[1]
             collection_date == rows[i].Collection_Date
         IN  IF fetchone(acc.table, collection_date, "Groups", individual_sandwiches)
             THEN group_rows(acc, rows, i + 1)
             ELSE group_rows(
                      [table |-> Append(acc.table,
                                        StoredRow(collection_date, "Groups", individual_sandwiches)),
                       imported_count |-> acc.imported_count + 1,
                       total_sandwiches |-> acc.total_sandwiches + individual_sandwiches],
                      rows, i + 1)

\* import_group_donations.py, main: a text that int() refuses raises out of
\* the loop and main rolls the transaction back.
import_group_donations ==
    \E out \in {IF \E i \in DOMAIN csv_file : isna(csv_file[i].Individual_Sandwiches)
                THEN [table |-> sandwich_collections, imported_count |-> 0,
                      total_sandwiches |-> 0, failed |-> TRUE]
                ELSE [failed |-> FALSE] @@
                     group_rows([table |-> sandwich_collections, imported_count |-> 0,
                                 total_sandwiches |-> 0], csv_file, 1)} :
        /\ table_before' = sandwich_collections
        /\ sandwich_collections' = out.table
        /\ imported_count' = out.imported_count
        /\ total_sandwiches' = out.total_sandwiches
        /\ skipped_count' = 0
        /\ last_import' = IF out.failed THEN "groups failed" ELSE "groups"
        /\ table_start' = out.table
        /\ UNCHANGED << df, writes, ran, discrepancies, attempted, committed,
                        adjustments_made, total_adjusted, answers, complete, touched, repeat,
                        csv_file, excel_file, log_runs, dedupVars, parserVars, toolVars >>

\* if collection_date and sandwich_count > 0
LogRowImported(r) == ~isna(r.Date) /\ ~isna(r.Total) /\ r.Total[1] > 0

\* import_pre_location_logs.py: every row with a date and a positive count
\* is inserted for 'OG Sandwich Project', every other row is skipped.
import_pre_location_logs ==
    \E rows \in {SelectSeq(excel_file, LogRowImported)} :
        /\ log_runs < MaxLogRuns
        /\ log_runs' = log_runs + 1
        /\ table_before' = sandwich_collections
        /\ sandwich_collections' =
              sandwich_collections
              \o [i \in 1..Len(rows) |-> StoredRow(rows[i].Date[1], OG, rows[i].Total[1])]
        /\ imported_count' = Len(rows)
        /\ total_sandwiches' = 0
        /\ skipped_count' = Len(excel_file) - Len(rows)
        /\ last_import' = "logs"
        /\ table_start' = sandwich_collections'
        /\ UNCHANGED << df, writes, ran, discrepancies, attempted, committed,
                        adjustments_made, total_adjusted, answers, complete, touched, repeat,
                        csv_file, excel_file, dedupVars, parserVars, toolVars >>

\* df[(df['Date'].notna()) & (df[Total].notna()) & (df[Total] > 0)]
valid_data(sheet) ==
    SelectSeq(sheet, LAMBDA r : ~isna(r.Date) /\ ~isna(r.Total) /\ r.Total[1] > 0)

\* SELECT DISTINCT collection_date FROM sandwich_collections
get_existing_dates(table) == {table[k].collection_date : k \in DOMAIN table}

\* import_master_spreadsheet.py: every valid row whose date the table did not
\* hold when the run began is inserted as a weekly total.
import_master_spreadsheet_data ==
    \E existing_dates \in {get_existing_dates(sandwich_collections)} :
    \E missing_entries \in {SelectSeq(valid_data(excel_file),
                                      LAMBDA r : r.Date[1] \notin existing_dates)} :
        /\ table_before' = sandwich_collections
        /\ sandwich_collections' =
              sandwich_collections
              \o [i \in 1..Len(missing_entries) |->
                     StoredRow(missing_entries[i].Date[1], "Weekly Total (Master Spreadsheet)",
                               missing_entries[i].Total[1])]
        /\ imported_count' = Len(missing_entries)
        /\ total_sandwiches' =
              SumSeq([i \in 1..Len(missing_entries) |-> missing_entries[i].Total[1]])
        /\ skipped_count' = 0
        /\ last_import' = "master"
        /\ table_start' = sandwich_collections'
        /\ UNCHANGED << df, writes, ran, discrepancies, attempted, committed,
                        adjustments_made, total_adjusted, answers, complete, touched, repeat,
                        csv_file, excel_file, log_runs, dedupVars, parserVars, toolVars >>

ImportInit ==
    /\ df = <<>>
    /\ ReconInit
    /\ DedupIdle
    /\ ParserIdle
    /\ ToolsIdle
    /\ csv_file \in SeqsUpTo(GroupCsvRows, MaxImportRows)
    /\ excel_file \in SeqsUpTo(ExcelRows, MaxImportRows)
    /\ last_import = "none"
    /\ imported_count = 0
    /\ total_sandwiches = 0
    /\ skipped_count = 0
    /\ log_runs = 0

ImportNext ==
    import_group_donations \/ import_pre_location_logs \/ import_master_spreadsheet_data

ImportSpec == ImportInit /\ [][ImportNext]_vars

\* ------------------------------------------------ complete_rtf_parser.py
\* The date between the parentheses of an entry, as the log has it: the digits
\* of the month and the day (the year is 2023 throughout).
DateTexts ==
    { << <<2>>, 5 >>, << <<2>>, 30 >>, << <<1, 0>>, 5 >>, << <<1, 1>>, 5 >>, << <<1, 3>>, 5 >> }

\* The count text of an entry: digits with commas, or (NA) commas only.
CountTexts == {Some(7), Some(20), NA}

\* An entry 'Week <week> (<month>/<day>/2023): <count> sandwiches'.
Entries ==
    { [week |-> w, month |-> t[1], day |-> t[2], count |-> c] :
        w \in {1, 2}, t \in DateTexts, c \in CountTexts }

\* week_pattern: between '(' and the date stands [^\)]*, which is greedy and
\* takes every character that still leaves \d{1,2}/ to match, the first digit
\* of a two-digit month included.
capture(month) == IF Len(month) = 2 THEN << month[2] >> ELSE month

\* re.findall(week_pattern, content, re.IGNORECASE)
findall(text) ==
    [i \in 1..Len(text) |->
        [week_num |-> text[i].week,
         date_str |-> << capture(text[i].month), text[i].day >>,
         count_str |-> text[i].count]]

\* if date_str.startswith('0/'): date_str = '10/' + date_str[2:]
repair(date_str) == IF date_str[1] = <<0>> THEN << <<1, 0>>, date_str[2] >> ELSE date_str

MonthValue(month) == IF Len(month) = 2 THEN 10 * month[1] + month[2] ELSE month[1]

DaysIn(m) == IF m = 2 THEN 28 ELSE IF m \in {4, 6, 9, 11} THEN 30 ELSE 31

\* datetime.strptime(date_str, '%m/%d/%Y').strftime('%Y-%m-%d'); NA stands
\* for ValueError
strptime(date_str) ==
    LET m == MonthValue(date_str[1])
    IN  IF m \in 1..12 /\ date_str[2] \in 1..DaysIn(m) THEN Some(<< m, date_str[2] >>) ELSE NA

\* weekly_totals[week_num] is created or added to
aggregate(totals, week_num, iso_date, date_str, count) ==
    IF \E k \in DOMAIN totals : totals[k].week = week_num
    THEN [k \in DOMAIN totals |->
             IF totals[k].week = week_num
             THEN [totals[k] EXCEPT !.count = @ + count, !.location_count = @ + 1]
             ELSE totals[k]]
    ELSE Append(totals, [week |-> week_num, date |-> iso_date, count |-> count,
                         original_date |-> date_str, location_count |-> 1])

\* for week_num, date_str, count_str in matches
RECURSIVE parse_matches(_, _, _)
parse_matches(acc, matches, i) ==
    IF i > Len(matches) THEN acc
    ELSE LET m == matches[i]
             date_str == repair(m.date_str)
             iso_date == strptime(date_str)
         IN  IF isna(m.count_str)
             THEN parse_matches([acc EXCEPT !.printed = Append(@, m)], matches, i + 1)
             ELSE IF isna(iso_date)
                  THEN parse_matches(acc, matches, i + 1)
                  ELSE parse_matches(
                           [acc EXCEPT !.totals = aggregate(@, m.week_num, iso_date[1],
                                                            date_str, m.count_str[1])],
                           matches, i + 1)

parse_complete_rtf_log ==
    \E out \in {parse_matches([totals |-> <<>>, printed |-> <<>>], findall(content), 1)} :
        /\ ~parsed
        /\ weekly_totals' = out.totals
        /\ could_not_parse' = out.printed
        /\ parsed' = TRUE
        /\ UNCHANGED << content, reconVars, dedupVars, importVars, toolVars >>

ParserInit ==
    /\ df = <<>>
    /\ ReconInit
    /\ DedupIdle
    /\ ImportIdle
    /\ ToolsIdle
    /\ content \in SeqsUpTo(Entries, MaxEntries)
    /\ weekly_totals = <<>>
    /\ could_not_parse = <<>>
    /\ parsed = FALSE

ParserNext == parse_complete_rtf_log

ParserSpec == ParserInit /\ [][ParserNext]_vars

\* ------------------------------------------------- verify_collections.py
\* What parse_rtf_log tells apart in the log: a host header (the \fs36 ...
\* \cf0 run, followed by a host name the pattern of host_match recognizes, or
\* by none) and a week entry.
RtfHeaders == { [kind |-> "header", host |-> Some("DUNWOODY")], [kind |-> "header", host |-> NA] }

\* Week entries: 10/05/2023 with count 7, 13/05/2023 (no month), 10/05/2023
\* with a count of commas only, and 2/05/2023, which \d{2}\/\d{2} refuses.
RtfWeeks ==
    { [kind |-> "week", week |-> 1, month |-> <<1, 0>>, day |-> 5, count |-> Some(7)],
      [kind |-> "week", week |-> 1, month |-> <<1, 3>>, day |-> 5, count |-> Some(7)],
      [kind |-> "week", week |-> 1, month |-> <<1, 0>>, day |-> 5, count |-> NA],
      [kind |-> "week", week |-> 1, month |-> <<2>>, day |-> 5, count |-> Some(7)] }

RtfItems == RtfHeaders \cup RtfWeeks

\* re.findall(r'Week\s+(\d+)\s*\((\d{2}\/\d{2}\/\d{4})\):\s*([\d,]+)\s*sandwiches', ...)
week_patterns(text) == SelectSeq(text, LAMBDA x : x.kind = "week" /\ Len(x.month) = 2)

\* re.split(r'\\fs36.*?\\cf0', content)[1:]: the text after each header, up
\* to the next one; what stands before the first header is left out.
host_sections(text) ==
    LET heads == SelectSeq([i \in 1..Len(text) |-> i], LAMBDA i : text[i].kind = "header")
    IN  [n \in 1..Len(heads) |->
            [host_match |-> text[heads[n]].host,
             body |-> SubSeq(text, heads[n] + 1,
                             IF n < Len(heads) THEN heads[n + 1] - 1 ELSE Len(text))]]

\* Mutant: a section without a recognizable host starts over at 'Unknown'.
next_host_reset(current_host, section) ==
    IF isna(section.host_match) THEN "Unknown" ELSE section.host_match[1]

\* if host_match: current_host = host_match.group(1).strip()
next_host(current_host, section) ==
    IF isna(section.host_match) THEN current_host ELSE section.host_match[1]

\* the try block: strptime of the date and int() of the count both succeeded
entry_parses(e) == ~isna(strptime(<< e.month, e.day >>)) /\ ~isna(e.count)

\* collections.append({...})
rtf_record(host, e) ==
    [host |-> host, week |-> e.week, date |-> strptime(<< e.month, e.day >>)[1],
     count |-> e.count[1], original_date |-> << e.month, e.day >>]

\* for section in host_sections
RECURSIVE parse_sections(_, _, _)
parse_sections(acc, sections, n) ==
    IF n > Len(sections) THEN acc
    ELSE \* bound once: the host of this section and its week entries
         LET step == CHOOSE r \in
                 { [current_host |-> host,
                    collections |-> acc.collections
                       \o [i \in 1..Len(SelectSeq(weeks, entry_parses)) |->
                              rtf_record(host, SelectSeq(weeks, entry_parses)[i])],
                    printed |-> acc.printed
                       \o SelectSeq(weeks, LAMBDA e : ~entry_parses(e))] :
                    host \in {next_host(acc.current_host, sections[n])},
                    weeks \in {week_patterns(sections[n].body)} } : TRUE
         IN  parse_sections(step, sections, n + 1)

parse_rtf_log ==
    \E out \in {parse_sections([current_host |-> "Unknown", collections |-> <<>>,
                                printed |-> <<>>], host_sections(rtf_content), 1)} :
    \E all \in {week_patterns(rtf_content)} :
        /\ ~rtf_parsed
        /\ rtf_fallback' = (out.collections = <<>> /\ all # <<>>)
        /\ rtf_collections' =
              IF out.collections = <<>> /\ all # <<>>
              THEN [i \in 1..Len(SelectSeq(all, entry_parses)) |->
                       rtf_record("Parsed Entry", SelectSeq(all, entry_parses)[i])]
              ELSE out.collections
        /\ rtf_printed' = out.printed
        /\ rtf_parsed' = TRUE
        /\ UNCHANGED << rtf_content, reconVars, dedupVars, importVars, parserVars,
                        driverVars, restoreVars >>

RtfInit ==
    /\ df = <<>>
    /\ ReconInit
    /\ DedupIdle
    /\ ImportIdle
    /\ ParserIdle
    /\ DriversIdle
    /\ RestoreIdle
    /\ rtf_content \in SeqsUpTo(RtfItems, MaxItems)
    /\ rtf_collections = <<>>
    /\ rtf_printed = <<>>
    /\ rtf_fallback = FALSE
    /\ rtf_parsed = FALSE

RtfNext == parse_rtf_log

RtfSpec == RtfInit /\ [][RtfNext]_vars

\* ------------------------------------------------ migrate_driver_notes.py
\* A part of a notes text, between two ';' and stripped: what it starts with
\* ('Area:', 'Agreement:', 'Notes:' or none of them) and the text after that.
\* 'near mall' contains two of the area keywords, 'signed' none.
NotePrefixes == {"Area", "Agreement", "Notes", ""}

NoteTexts == {"", "signed", "near mall"}

NoteParts == [prefix : NotePrefixes, text : NoteTexts]

\* any(keyword in part.lower() for keyword in area_keywords) and len(part) < 100
looks_like_area(part) == part.text = "near mall"

\* for part in parts: the three results so far, and the next part
parse_part(acc, part) ==
    IF part.prefix = "" /\ part.text = "" THEN acc                 \* if not part: continue
    ELSE IF part.prefix = "Area" /\ part.text # ""
         THEN [acc EXCEPT !.area = Some(part.text)]
    ELSE IF part.prefix = "Agreement" /\ part.text # ""
         THEN [acc EXCEPT !.agreement_status = Some(part.text)]
    ELSE IF part.prefix = "Notes" /\ part.text # ""
         THEN [acc EXCEPT !.clean_notes = Append(@, part.text)]
    ELSE IF part.prefix # "" THEN acc                              \* a prefix and nothing after it
    ELSE IF looks_like_area(part)
         THEN (IF isna(acc.area) THEN [acc EXCEPT !.area = Some(part.text)] ELSE acc)
    ELSE [acc EXCEPT !.clean_notes = Append(@, part.text)]

RECURSIVE parse_parts(_, _, _)
parse_parts(acc, parts, i) ==
    IF i > Len(parts) THEN acc ELSE parse_parts(parse_part(acc, parts[i]), parts, i + 1)

\* parse_notes(notes_text): (area, agreement_status, clean_notes)
parse_notes(notes_text) ==
    parse_parts([area |-> NA, agreement_status |-> NA, clean_notes |-> <<>>], notes_text, 1)

\* '; '.join(clean_notes) if clean_notes else None, stored as clean_notes or
\* '': read again, the text splits into the same notes, none with a prefix
joined(clean_notes) == [i \in 1..Len(clean_notes) |-> [prefix |-> "", text |-> clean_notes[i]]]

\* not driver['zone']
no_zone(driver) == isna(driver.zone) \/ driver.zone = Some("")

\* Mutant: the zone is set whenever an area was found.
new_zone_always(driver, area) == IF ~isna(area) THEN area ELSE driver.zone

\* if area and not driver['zone']: updates['zone'] = area
new_zone(driver, area) == IF ~isna(area) /\ no_zone(driver) THEN area ELSE driver.zone

\* WHERE notes IS NOT NULL AND notes != ''
has_notes(driver) == ~isna(driver.notes) /\ driver.notes # Some(<<>>)

\* UPDATE drivers SET zone = %s, notes = %s WHERE id = %s
update_driver(driver) ==
    CHOOSE row \in
        { [driver EXCEPT !.zone = new_zone(driver, found.area),
                         !.notes = Some(joined(found.clean_notes))] :
              found \in {parse_notes(driver.notes[1])} } : TRUE

apply_migration(table) ==
    [k \in DOMAIN table |-> IF has_notes(table[k]) THEN update_driver(table[k]) ELSE table[k]]

\* main: the operator's choice, and for choice 2 the answer to 'Are you sure'
main ==
    \E choice \in {"1", "2", "3", "x"} : \E confirm \in {"yes", "no"} :
        /\ answers' = IF choice = "2" THEN << choice, confirm >> ELSE << choice >>
        /\ IF choice = "2" /\ confirm = "yes"
           THEN /\ drivers_before' = drivers
                /\ drivers' = apply_migration(drivers)
                /\ updated_count' = Cardinality({k \in DOMAIN drivers : has_notes(drivers[k])})
                /\ migration' = "applied"
           ELSE /\ migration' = CASE choice = "1" -> "preview"
                                  [] choice = "2" -> "cancelled"
                                  [] choice = "3" -> "exit"
                                  [] OTHER -> "invalid"
                /\ UNCHANGED << drivers, drivers_before, updated_count >>
        /\ UNCHANGED << df, sandwich_collections, writes, ran, table_before, table_start,
                        discrepancies,
                        attempted, committed, adjustments_made, total_adjusted, complete,
                        touched, repeat, dedupVars, importVars, parserVars, rtfVars,
                        restoreVars >>

\* The drivers table: one driver with any notes and zone, and a second one.
DriverTables ==
    { << [id |-> 1, name |-> "Ann", phone |-> 1, notes |-> n1, zone |-> z1],
         [id |-> 2, name |-> "Bob", phone |-> 2, notes |-> n2, zone |-> z2] >> :
        n1 \in {NA} \cup {Some(t) : t \in SeqsUpTo(NoteParts, MaxParts)},
        z1 \in {NA, Some(""), Some("East")},
        n2 \in {NA, Some(<<>>), Some(<< [prefix |-> "Area", text |-> "near mall"] >>)},
        z2 \in {Some(""), Some("East")} }

MigrateInit ==
    /\ df = <<>>
    /\ ReconInit
    /\ DedupIdle
    /\ ImportIdle
    /\ ParserIdle
    /\ RtfIdle
    /\ RestoreIdle
    /\ drivers \in DriverTables
    /\ drivers_before = <<>>
    /\ updated_count = 0
    /\ migration = "none"

MigrateNext == main

MigrateSpec == MigrateInit /\ [][MigrateNext]_vars

\* ------------------------------------- restore_group_conversations.py
\* The entries of group_backup['groups']: a name, NA when the key is absent,
\* and the members' user_id, NA for a member without one.
GroupNames == {"Hosts", "Drivers"}

GroupEntries ==
    { [name |-> n, members |-> m] :
        n \in {NA} \cup {Some(g) : g \in GroupNames},
        m \in {<<>>, << Some(7), NA >>} }

\* The entries of conversation_backup['conversations']: type and name
ConversationEntries ==
    { [type |-> t, name |-> n] : t \in {"group", "direct"}, n \in {NA, Some("Hosts")} }

\* group.get('name', 'Unknown Group')
get_name(entry) == IF isna(entry.name) THEN "Unknown Group" ELSE entry.name[1]

\* SELECT name FROM conversations WHERE type = 'group', read once before
\* the loops
existing_groups(table) ==
    { table[i].name : i \in {k \in DOMAIN table : table[k].type = "group"} }

\* for member in members: if user_id: INSERT INTO conversation_participants
add_members(participants, conversation_id, members) ==
    participants \o
    [k \in 1..Len(SelectSeq(members, LAMBDA m : ~isna(m))) |->
        [conversation_id |-> conversation_id,
         user_id |-> SelectSeq(members, LAMBDA m : ~isna(m))[k][1]]]

\* for group in group_backup['groups']: `existing` is the set read before
\* the loops, which the loops never add to; RETURNING id is the next serial id
RECURSIVE restore_groups(_, _, _, _)
restore_groups(acc, groups, i, existing) ==
    IF i > Len(groups) THEN acc
    ELSE CHOOSE r \in
           { IF group_name \in existing
             THEN restore_groups(acc, groups, i + 1, existing)
             ELSE restore_groups(
                      [conversations |-> Append(acc.conversations,
                                                [type |-> "group", name |-> group_name]),
                       participants |-> add_members(acc.participants,
                                                    Len(acc.conversations) + 1,
                                                    groups[i].members),
                       restored_groups |-> acc.restored_groups + 1],
                      groups, i + 1, existing) :
               group_name \in {get_name(groups[i])} } : TRUE

\* for conv in conversation_backup['conversations']: if conv.get('type') == 'group'
RECURSIVE restore_convs(_, _, _, _)
restore_convs(acc, convs, i, existing) ==
    IF i > Len(convs) THEN acc
    ELSE CHOOSE r \in
           { IF convs[i].type # "group" \/ conv_name \in existing
             THEN restore_convs(acc, convs, i + 1, existing)
             ELSE restore_convs(
                      [conversations |-> Append(acc.conversations,
                                                [type |-> "group", name |-> conv_name]),
                       participants |-> acc.participants,
                       restored_groups |-> acc.restored_groups + 1],
                      convs, i + 1, existing) :
               conv_name \in {get_name(convs[i])} } : TRUE

\* restore_group_conversations(): both files missing returns before the
\* table is read; otherwise both loops run in one transaction, committed at
\* the end.
restore_group_conversations ==
    /\ restore_runs < MaxRestoreRuns
    /\ restore_runs' = restore_runs + 1
    /\ IF isna(group_backup) /\ isna(conversation_backup)
       THEN /\ restored_groups' = 0
            /\ UNCHANGED << conversations, conversation_participants >>
       ELSE \E existing \in {existing_groups(conversations)} :
            \E start \in {[conversations |-> conversations,
                           participants |-> conversation_participants,
                           restored_groups |-> 0]} :
            \E mid \in {IF isna(group_backup) THEN start
                         ELSE restore_groups(start, group_backup[1], 1, existing)} :
            \E out \in {IF isna(conversation_backup) THEN mid
                         ELSE restore_convs(mid, conversation_backup[1], 1, existing)} :
               /\ conversations' = out.conversations
               /\ conversation_participants' = out.participants
               /\ restored_groups' = out.restored_groups
    /\ UNCHANGED << group_backup, conversation_backup, reconVars, dedupVars, importVars,
                    parserVars, rtfVars, driverVars >>

\* The conversations table before the first run: at most one group
\* conversation of every name.
ConversationTables ==
    { <<>>,
      << [type |-> "group", name |-> "Hosts"] >>,
      << [type |-> "direct", name |-> "Hosts"], [type |-> "group", name |-> "Unknown Group"] >> }

RestoreInit ==
    /\ df = <<>>
    /\ ReconInit
    /\ DedupIdle
    /\ ImportIdle
    /\ ParserIdle
    /\ RtfIdle
    /\ DriversIdle
    /\ conversations \in ConversationTables
    /\ conversation_participants = <<>>
    /\ group_backup \in {NA} \cup {Some(g) : g \in SeqsUpTo(GroupEntries, MaxBackup)}
    /\ conversation_backup
         \in {NA} \cup {Some(c) : c \in SeqsUpTo(ConversationEntries, MaxBackup)}
    /\ restored_groups = 0
    /\ restore_runs = 0

RestoreNext == restore_group_conversations

RestoreSpec == RestoreInit /\ [][RestoreNext]_vars

\* ------------------------------------------------ reading a run's outcome
\* Per-period sums, written out independently of the script's own queries.
RECURSIVE SumRows(_, _)
SumRows(table, idx) ==
    IF idx = {} THEN 0
    ELSE LET k == CHOOSE k \in idx : TRUE
         IN  table[k].individual_sandwiches + group_sum(table[k].group_collections)
             + SumRows(table, idx \ {k})

EffectiveTotal(table, d, skipHost) ==
    SumRows(table, {k \in DOMAIN table :
                       table[k].collection_date = d /\ table[k].host_name # skipHost})

CanonicalTotal(table, d) == EffectiveTotal(table, d, "")

IsSourceRow(r) == r.VALID = 1 /\ r.Total # NA /\ r.Date # NA

RECURSIVE SumSheet(_, _)
SumSheet(csv, idx) ==
    IF idx = {} THEN 0
    ELSE LET k == CHOOSE k \in idx : TRUE
         IN  csv[k].Total[1] + SumSheet(csv, idx \ {k})

SourceTotal(csv, d) ==
    SumSheet(csv, {k \in DOMAIN csv : IsSourceRow(csv[k]) /\ csv[k].Date = Some(d)})

SourceDates == {df[i].Date[1] : i \in {j \in DOMAIN df : IsSourceRow(df[j])}}

TableDates(table) == {table[i].collection_date : i \in DOMAIN table}

Count(s, x) == Cardinality({i \in DOMAIN s : s[i] = x})

IsAdjustment(r) == r.host_name = "Data Reconciliation"

\* C1: a run that directly follows a complete run (the cap cut nothing, every
\* insert was committed, nobody else wrote in between) emits no corrective
\* record.
C1_ReconcileIdempotent == (ran /\ repeat) => (attempted = <<>> /\ committed = <<>>)

\* C1 witness: such a second run, after a first run that did insert.
C1_SecondRunSeen ==
    /\ ran /\ repeat
    /\ \E i \in DOMAIN table_before : IsAdjustment(table_before[i])

\* C2: for a period whose canonical total exceeds its source total, a run
\* neither emits nor inserts a corrective record.
C2_NegativeDeltaSafe ==
    ran => \A d \in SourceDates :
             \A delta \in {SourceTotal(df, d) - CanonicalTotal(table_before, d)} :
                delta < 0
                => /\ \A i \in DOMAIN attempted : attempted[i].date # d
                   /\ \A i \in DOMAIN committed : committed[i].collection_date # d

\* C2 witness: a run that listed a period with a delta below -100 within the
\* cap and did insert for another period.
C2_NegativeListed ==
    /\ ran
    /\ committed # <<>>
    /\ \E i \in DOMAIN discrepancies :
          /\ i <= TopN
          /\ discrepancies[i].difference < -AdjustThreshold
          /\ CanonicalTotal(table_before, discrepancies[i].date)
               > SourceTotal(df, discrepancies[i].date)

\* C3 as claimed: one threshold; every listed positive gap within the cap is
\* corrected.
C3_SingleThreshold ==
    ran => \A i \in DOMAIN discrepancies :
             (i <= TopN /\ discrepancies[i].difference > 0)
             => Count(attempted, discrepancies[i]) > 0

\* C3 amended: two cut-offs.  A row is listed exactly when abs(delta) > 10,
\* and a listed entry within the cap is corrected exactly when delta > 100:
\* delta = 100 is listed and not corrected, delta = 101 is corrected.
C3_TwoThresholds ==
    ran => /\ \A i \in DOMAIN discrepancies :
                \/ discrepancies[i].difference >= 11
                \/ discrepancies[i].difference <= -11
           /\ \A d \in SourceDates :
                \A delta \in {SourceTotal(df, d) - CanonicalTotal(table_before, d)} :
                   (/\ Cardinality({j \in DOMAIN df : df[j].Date = Some(d)}) = 1
                    /\ delta \in -10..10)
                   => \A i \in DOMAIN discrepancies : discrepancies[i].date # d
           /\ \A i \in DOMAIN attempted : attempted[i].difference >= 101
           /\ \A i \in DOMAIN discrepancies :
                (i <= TopN /\ discrepancies[i].difference >= 101)
                => Count(attempted, discrepancies[i]) > 0
           /\ \A i \in DOMAIN discrepancies :
                discrepancies[i].difference <= 100
                => Count(attempted, discrepancies[i]) = 0

\* C3 witness: a run that listed a delta of exactly 100 and one of exactly
\* 101 within the cap.
C3_BoundarySeen ==
    /\ ran
    /\ \E i, j \in DOMAIN discrepancies :
          /\ i <= TopN /\ j <= TopN
          /\ discrepancies[i].difference = 101
          /\ discrepancies[j].difference = 100

\* C4 as claimed: a period gets at most one corrective record in a run, and
\* its quantity is the period's source total minus its canonical total.
C4_OneRecordPerPeriod ==
    ran => /\ \A i, j \in DOMAIN committed :
                committed[i].collection_date = committed[j].collection_date => i = j
           /\ \A i \in DOMAIN committed :
                committed[i].individual_sandwiches
                  = SourceTotal(df, committed[i].collection_date)
                    - CanonicalTotal(table_before, committed[i].collection_date)

\* C5: a listed period that has no row in the table is compared against a
\* canonical total of 0, so its delta is its full source total, and a source
\* period with no row in the table and more than 10 sandwiches is listed; a
\* period that only the table has is never listed and never corrected.
C5_PeriodCoverage ==
    ran => \A known \in {TableDates(table_before)} : \A sheet \in {SourceDates} :
           /\ \A i \in DOMAIN discrepancies :
                /\ discrepancies[i].date \in sheet
                /\ discrepancies[i].date \notin known
                   => /\ discrepancies[i].database_total = 0
                      /\ discrepancies[i].difference = discrepancies[i].spreadsheet_total
           /\ \A j \in DOMAIN df :
                (/\ IsSourceRow(df[j])
                 /\ df[j].Date[1] \notin known
                 /\ df[j].Total[1] > ReportThreshold)
                => \E i \in DOMAIN discrepancies :
                      /\ discrepancies[i].date = df[j].Date[1]
                      /\ discrepancies[i].difference = df[j].Total[1]
           /\ \A i \in DOMAIN committed : committed[i].collection_date \in sheet
           /\ \A i \in DOMAIN attempted : attempted[i].date \in sheet

\* C5 witness: a run over a table holding a period the sheet lacks, which
\* listed a period the table lacks.
C5_BothAbsencesSeen ==
    /\ ran
    /\ TableDates(table_before) \ SourceDates # {}
    /\ \E i \in DOMAIN discrepancies : discrepancies[i].date \notin TableDates(table_before)

\* C6: a run inserts at most 20 corrective records, each for an entry among
\* the first 20 of its list; a period listed only after position 20 gets no
\* record.
C6_RunCap ==
    ran => /\ Len(attempted) <= TopN
           /\ Len(committed) <= TopN
           /\ \A i \in DOMAIN attempted :
                Count(attempted, attempted[i]) <= Count(Prefix(discrepancies, TopN), attempted[i])
           /\ \A i \in DOMAIN discrepancies :
                (i > TopN /\ \A k \in 1..TopN : discrepancies[k].date # discrepancies[i].date)
                => \A c \in DOMAIN committed :
                      committed[c].collection_date # discrepancies[i].date

\* C6 witness: a run with a gap above 100 ranked after position 20 that
\* committed 20 records.
C6_CapReached ==
    /\ ran
    /\ Len(committed) = TopN
    /\ \E i \in DOMAIN discrepancies : i > TopN /\ discrepancies[i].difference > AdjustThreshold

\* C7 as claimed: the list is ordered by abs(delta) descending.
C7_AbsDescending ==
    ran => \A i, j \in DOMAIN discrepancies :
             i < j => abs(discrepancies[i].difference) >= abs(discrepancies[j].difference)

\* C7 amended: the list is ordered by the signed delta descending, largest
\* missing amount first; every negative delta, however large, ranks after
\* every positive one.
C7_SignedDescending ==
    ran => \A i, j \in DOMAIN discrepancies :
             i < j => discrepancies[i].difference >= discrepancies[j].difference

\* C7 witness: a list with a positive delta ranked before a negative delta of
\* larger magnitude.
C7_LargeNegativeLast ==
    /\ ran
    /\ \E i, j \in DOMAIN discrepancies :
          /\ i < j
          /\ discrepancies[i].difference > 0
          /\ discrepancies[j].difference < 0
          /\ abs(discrepancies[j].difference) > discrepancies[i].difference

\* C8 as claimed: the canonical total a run compares a period against leaves
\* out the 'Data Reconciliation' rows of earlier runs.
C8_AdjustmentsExcluded ==
    ran => \A i \in DOMAIN discrepancies :
             discrepancies[i].database_total
               = EffectiveTotal(table_before, discrepancies[i].date, "Data Reconciliation")

\* C8 amended: the canonical total a run compares a period against is the sum
\* over every row of the period, the 'Data Reconciliation' rows of earlier
\* runs included.
C8_AdjustmentsCounted ==
    ran => \A i \in DOMAIN discrepancies :
             discrepancies[i].database_total
               = CanonicalTotal(table_before, discrepancies[i].date)

\* C8 witness: a run that listed a period for which the table already held a
\* 'Data Reconciliation' row.
C8_AdjustedPeriodListed ==
    /\ ran
    /\ \E i \in DOMAIN discrepancies : \E k \in DOMAIN table_before :
          /\ IsAdjustment(table_before[k])
          /\ table_before[k].collection_date = discrepancies[i].date

\* ------------------------------------------------ reading a pass's outcome
effective_total(c) == c.individualSandwiches + c.groupSandwiches

RECURSIVE SumEffective(_)
SumEffective(cs) == IF cs = <<>> THEN 0 ELSE effective_total(Head(cs)) + SumEffective(Tail(cs))

Listed(c) == \E i \in DOMAIN collectionsToDelete : collectionsToDelete[i].id = c.id

survivors == SelectSeq(collections, LAMBDA c : ~Listed(c))

\* C9: after a pass every loaded row is either a survivor or listed for
\* deletion exactly once, every listed row is a loaded row, and the effective
\* totals of survivors and deletion list add up to that of the loaded rows.
C9_DedupPartition ==
    stage = "listed" =>
        /\ \A i, j \in DOMAIN collectionsToDelete :
              collectionsToDelete[i].id = collectionsToDelete[j].id => i = j
        /\ \A i \in DOMAIN collectionsToDelete :
              \E k \in DOMAIN collections : collections[k] = collectionsToDelete[i]
        /\ Len(survivors) + Len(collectionsToDelete) = Len(collections)
        /\ SumEffective(survivors) + SumEffective(collectionsToDelete)
             = SumEffective(collections)

\* C9 witness: a pass that listed an early row and an OG row and left a
\* survivor.
C9_BothRulesSeen ==
    /\ stage = "listed"
    /\ \E i, j \in DOMAIN collectionsToDelete :
          /\ collectionsToDelete[i].hostName = ""
          /\ collectionsToDelete[j].hostName = OG
    /\ survivors # <<>>

\* C10: a pass over what the deletion of an earlier pass's list left lists
\* nothing.
C10_DedupIdempotent == (stage = "listed" /\ rerun) => collectionsToDelete = <<>>

\* C10 witness: such a second pass, after a deletion that removed a row.
C10_SecondPassSeen ==
    /\ stage = "listed" /\ rerun
    /\ \E i \in DOMAIN collections : collections[i].id # i

\* ------------------------------------------- the two populations of a pass
IsA(c) == c.hostName = OG

IsB(c) == c.hostName = ""

C12_EffectiveTotalKey ==
    stage = "listed" =>
        \A i \in DOMAIN collections :
           IsB(collections[i])
           => (Listed(collections[i])
               <=> \E j \in DOMAIN collections :
                      /\ IsA(collections[j])
                      /\ collections[j].collectionDate = collections[i].collectionDate
                      /\ effective_total(collections[j]) = effective_total(collections[i]))

\* the rows of one population that share a key with the row at position i
Group(i) ==
    {j \in DOMAIN collections :
        /\ collections[j].hostName = collections[i].hostName
        /\ key(collections[j]) = key(collections[i])}

FailedAt == IF Len(committed) = Len(attempted) THEN 0 ELSE adjustments_made + 1

\* C14 as claimed: when one INSERT of a run's batch fails, every other row of
\* the batch is committed all the same.
C14_FailureIsolated ==
    ran => \A i \in DOMAIN attempted :
             i # FailedAt
             => \E k \in DOMAIN committed : committed[k] = AdjustmentRow(attempted[i])

\* C15 as claimed: a run that issued an INSERT had read an explicit 'yes'
\* from the operator first.
C15_ConfirmedBeforeWrite ==
    (ran /\ attempted # <<>>) => \E i \in DOMAIN answers : answers[i] = "yes"

\* C17: a run only appends.  Directly after a run the table is the table the
\* run read, row for row, followed by the rows the run committed, and no
\* period's canonical total is below what it was before the run.
C17_AppendOnly ==
    (ran /\ ~touched) =>
        /\ sandwich_collections = table_before \o committed
        /\ \A d \in TableDates(table_before) :
              CanonicalTotal(sandwich_collections, d) >= CanonicalTotal(table_before, d)

\* C17 witness: a run over a table that held rows, which committed two rows
\* for one period.
C17_AppendedToRows ==
    /\ ran /\ ~touched
    /\ table_before # <<>>
    /\ \E i, j \in DOMAIN committed :
          i # j /\ committed[i].collection_date = committed[j].collection_date

\* C18 as claimed: the counts a run reports are the number and the quantity
\* of the rows it committed, also when an INSERT failed.
C18_FaithfulReport ==
    ran => /\ adjustments_made = Len(committed)
           /\ total_adjusted
                = SumSeq([i \in 1..Len(committed) |-> committed[i].individual_sandwiches])

\* C16 as claimed: whatever the import scripts read, every row of the table
\* has a quantity of at least 0; a file row with a negative quantity is never
\* inserted.
C16_QuantityNonNegative ==
    \A k \in DOMAIN sandwich_collections : sandwich_collections[k].individual_sandwiches >= 0

\* ---------------------------------------------- reading a parse's outcome
\* The calendar day an entry of the log names: its written month, with a lone
\* 0 read as 10, and its day; NA when that is no day of the calendar.
WrittenDate(e) == strptime(<< IF e.month = <<0>> THEN <<1, 0>> ELSE e.month, e.day >>)

\* the positions of the entries that name a calendar day and carry a count
ValidEntries == {i \in DOMAIN content : ~isna(WrittenDate(content[i])) /\ ~isna(content[i].count)}

BadDateEntries == {i \in DOMAIN content : isna(WrittenDate(content[i])) /\ ~isna(content[i].count)}

RECURSIVE SumCounts(_)
SumCounts(idx) ==
    IF idx = {} THEN 0
    ELSE LET k == CHOOSE k \in idx : TRUE IN content[k].count[1] + SumCounts(idx \ {k})

\* C19 as claimed: an entry whose date names no calendar day is left out of
\* the aggregate and handed back in a list of rejected entries, and every
\* valid entry around it is counted.
C19_BadDateRejected ==
    parsed =>
        /\ \A i \in BadDateEntries :
              \E k \in DOMAIN could_not_parse : could_not_parse[k].week_num = content[i].week
        /\ SumSeq([k \in 1..Len(weekly_totals) |-> weekly_totals[k].location_count])
             = Cardinality(ValidEntries)

\* C20 as claimed: one record per week number that has a valid entry; its
\* count is the sum of the counts of the week's valid entries and its date is
\* the date of the first of them.
C20_OneRecordPerWeek ==
    parsed =>
        /\ \A j, k \in DOMAIN weekly_totals :
              weekly_totals[j].week = weekly_totals[k].week => j = k
        /\ {weekly_totals[k].week : k \in DOMAIN weekly_totals}
             = {content[i].week : i \in ValidEntries}
        /\ \A k \in DOMAIN weekly_totals :
              \A mine \in {{i \in ValidEntries : content[i].week = weekly_totals[k].week}} :
                 /\ weekly_totals[k].count = SumCounts(mine)
                 /\ \A i \in mine :
                       (\A j \in mine : i <= j)
                       => Some(weekly_totals[k].date) = WrittenDate(content[i])
        /\ SumSeq([k \in 1..Len(weekly_totals) |-> weekly_totals[k].count])
             = SumCounts(ValidEntries)

\* ------------------------------------- reading what parse_rtf_log returned
\* the positions of the week entries that match the pattern and parse
RtfValid == {i \in DOMAIN rtf_content : rtf_content[i].kind = "week"
                                        /\ Len(rtf_content[i].month) = 2
                                        /\ entry_parses(rtf_content[i])}

RtfHeaderSeen(i) == \E h \in 1..(i - 1) : rtf_content[h].kind = "header"

\* the name of the last header before position i that carries a recognizable
\* host name, 'Unknown' if there is none
LabelAt(i) ==
    LET named == {h \in 1..(i - 1) : rtf_content[h].kind = "header" /\ ~isna(rtf_content[h].host)}
    IN  IF named = {} THEN "Unknown"
        ELSE rtf_content[CHOOSE h \in named : \A g \in named : g <= h].host[1]

\* C21 as claimed: the parser returns as many entries as the text has valid
\* ones, those before the first header included, and with no header in the
\* text all of them carry the generic label.
C21_NoValidEntryDropped ==
    rtf_parsed =>
        /\ Len(rtf_collections) = Cardinality(RtfValid)
        /\ (\A i \in DOMAIN rtf_content : rtf_content[i].kind # "header")
           => \A k \in DOMAIN rtf_collections : rtf_collections[k].host = "Parsed Entry"

\* C22: when the section loop produced the result (no fallback), the returned
\* entries are the valid entries after the first header, in text order, each
\* with the name of the last recognized host header before it; an entry
\* under headers none of which was recognized carries 'Unknown'.
C22_RunningLabel ==
    (rtf_parsed /\ ~rtf_fallback) =>
        \A idx \in {SelectSeq([i \in 1..Len(rtf_content) |-> i],
                              LAMBDA i : i \in RtfValid /\ RtfHeaderSeen(i))} :
           /\ Len(rtf_collections) = Len(idx)
           /\ \A k \in DOMAIN idx : rtf_collections[k].host = LabelAt(idx[k])

\* C22 witness: an entry under an unrecognized first header, then a
\* recognized header, an unrecognized one, and an entry that keeps the
\* recognized name.
C22_LabelKept ==
    /\ rtf_parsed /\ ~rtf_fallback
    /\ Len(rtf_collections) = 2
    /\ rtf_collections[1].host = "Unknown"
    /\ rtf_collections[2].host = "DUNWOODY"
    /\ rtf_content[Len(rtf_content) - 1] = [kind |-> "header", host |-> NA]

\* C23: a sheet row whose total or whose date does not coerce gives no
\* discrepancy and no insert, and is not compared as a total of 0; every
\* other valid row is compared as usual.  The list of a run has exactly one
\* entry per valid dated row whose total differs from the period's table
\* total by more than 10, with that row's date and total.
C23_RowExclusion ==
    ran =>
        \A rows \in {SelectSeq([j \in 1..Len(df) |-> j],
                               LAMBDA j : IsSourceRow(df[j])
                                          /\ abs(df[j].Total[1]
                                                 - CanonicalTotal(table_before, df[j].Date[1]))
                                             > ReportThreshold)} :
           /\ Len(discrepancies) = Len(rows)
           /\ \A i \in DOMAIN discrepancies :
                 \E k \in DOMAIN rows :
                    /\ discrepancies[i].date = df[rows[k]].Date[1]
                    /\ discrepancies[i].spreadsheet_total = df[rows[k]].Total[1]
           /\ \A i \in DOMAIN committed :
                 \E k \in DOMAIN rows : committed[i].collection_date = df[rows[k]].Date[1]

\* C23 witness: a run over a sheet with a row marked valid whose total or
\* date does not coerce, over a table that holds rows, which listed another
\* row of the sheet.
C23_BadRowSkipped ==
    /\ ran
    /\ table_before # <<>>
    /\ discrepancies # <<>>
    /\ \E j \in DOMAIN df : df[j].VALID = 1 /\ (isna(df[j].Total) \/ isna(df[j].Date))

\* ------------------------------------------- reading a migration's outcome
\* the agreement statuses a row's notes state
Agreements(row) ==
    IF isna(row.notes) THEN {}
    ELSE {row.notes[1][i].text : i \in {j \in DOMAIN row.notes[1] :
                                           /\ row.notes[1][j].prefix = "Agreement"
                                           /\ row.notes[1][j].text # ""}}

\* C24 as claimed: every agreement status a driver's notes stated before
\* apply_migration is still stated by the driver's row after it.
C24_AgreementKept ==
    migration = "applied" =>
        \A k \in DOMAIN drivers_before : Agreements(drivers_before[k]) \subseteq Agreements(drivers[k])

\* C30: apply_migration keeps the number and order of the rows; it leaves a
\* non-empty zone as it is, leaves a driver without notes (NULL or '') as it
\* is, and changes no column but zone and notes.
C30_MigrationFrame ==
    migration = "applied" =>
        /\ Len(drivers) = Len(drivers_before)
        /\ \A k \in DOMAIN drivers_before :
              /\ ~no_zone(drivers_before[k]) => drivers[k].zone = drivers_before[k].zone
              /\ ~has_notes(drivers_before[k]) => drivers[k] = drivers_before[k]
              /\ drivers[k].id = drivers_before[k].id
              /\ drivers[k].name = drivers_before[k].name
              /\ drivers[k].phone = drivers_before[k].phone

\* C30 witness: a migration over a driver whose notes name an area and whose
\* zone was set, a driver without notes, which changed the first one's notes.
C30_ZoneKeptNotesCleaned ==
    /\ migration = "applied"
    /\ \E k \in DOMAIN drivers_before :
          /\ has_notes(drivers_before[k])
          /\ ~isna(parse_notes(drivers_before[k].notes[1]).area)
          /\ drivers_before[k].zone = Some("East")
          /\ drivers[k].notes # drivers_before[k].notes
    /\ \E k \in DOMAIN drivers_before : ~has_notes(drivers_before[k])

\* ------------------------------------------------ reading a series of runs
\* the rows the runs appended since another script last wrote
Appended == SubSeq(sandwich_collections, Len(table_start) + 1, Len(sandwich_collections))

Max(a, b) == IF a >= b THEN a ELSE b

\* C25 as claimed: once a run that no other writer preceded emits no
\* corrective record, every period of the sheet is within the correcting
\* cut-off of its source total.
C25_ConvergedWithinThreshold ==
    (ran /\ ~touched /\ attempted = <<>>) =>
        \A d \in SourceDates :
           SourceTotal(df, d) - CanonicalTotal(sandwich_collections, d) <= AdjustThreshold

\* C26: after any number of runs since another script last wrote, every
\* period of the sheet has a canonical total of at most the larger of its
\* total then and its source total, and the 'Data Reconciliation' rows the
\* runs appended for it add up to at most the positive gap it had then.
C26_NoOverCorrection ==
    ran =>
        \A d \in SourceDates :
           \A source \in {SourceTotal(df, d)} :
           \A start \in {CanonicalTotal(table_start, d)} :
              /\ CanonicalTotal(sandwich_collections, d) <= Max(start, source)
              /\ CanonicalTotal(Appended, d) <= Max(0, source - start)
              /\ \A i \in DOMAIN Appended : IsAdjustment(Appended[i])

\* C26 witness: a further run after a run that appended two corrective rows
\* for one period, which add up to the gap the period had.
C26_GapClosedOnce ==
    /\ ran /\ repeat
    /\ \E d \in SourceDates :
          /\ Cardinality({i \in DOMAIN Appended : Appended[i].collection_date = d}) = 2
          /\ CanonicalTotal(Appended, d) = SourceTotal(df, d) - CanonicalTotal(table_start, d)

\* ------------------------------------------------- no event erased by a pass
\* the match key of the specification: period and effective total
match_key(c) == << c.collectionDate, effective_total(c) >>

\* C27 as claimed: after a pass, every match key (period, effective total)
\* of a loaded row is the key of some survivor, population A keeps exactly
\* one row of every match key it holds, and every listed B row has a
\* surviving A row of its match key.
C27_NoEventErased ==
    stage = "listed" =>
        /\ \A i \in DOMAIN collections :
              \E j \in DOMAIN collections :
                 /\ ~Listed(collections[j])
                 /\ match_key(collections[j]) = match_key(collections[i])
        /\ \A i \in DOMAIN collections :
              IsA(collections[i])
              => Cardinality({j \in DOMAIN collections :
                                 /\ IsA(collections[j])
                                 /\ ~Listed(collections[j])
                                 /\ match_key(collections[j]) = match_key(collections[i])}) = 1
        /\ \A i \in DOMAIN collections :
              (IsB(collections[i]) /\ Listed(collections[i]))
              => \E j \in DOMAIN collections :
                    /\ IsA(collections[j])
                    /\ ~Listed(collections[j])
                    /\ match_key(collections[j]) = match_key(collections[i])

\* ------------------------------------------- the group-donation import
\* at most one 'Groups' row of every (collection_date, individual_sandwiches)
OneGroupsRecord(table) ==
    \A i, j \in DOMAIN table :
       (/\ table[i].host_name = "Groups" /\ table[j].host_name = "Groups"
        /\ table[i].collection_date = table[j].collection_date
        /\ table[i].individual_sandwiches = table[j].individual_sandwiches) => i = j

\* the (date, count) pairs of the CSV that have no 'Groups' row in the table
Missing(table) ==
    { << csv_file[i].Collection_Date, csv_file[i].Individual_Sandwiches[1] >> :
        i \in {k \in DOMAIN csv_file :
                  ~fetchone(table, csv_file[k].Collection_Date, "Groups",
                            csv_file[k].Individual_Sandwiches[1])} }

\* C28: a run of import_group_donations that commits appends exactly one
\* 'Groups' row for every (date, count) of the CSV that no stored 'Groups'
\* row has, however often the CSV repeats it, and nothing else; a run that
\* follows a committed run over the same CSV inserts nothing; a table with
\* at most one 'Groups' row per (date, count) is still such a table after
\* the run.
C28_DuplicateFreeImport ==
    [][last_import' = "groups" =>
          \E n \in {Len(sandwich_collections)} :
          \E missing \in {Missing(sandwich_collections)} :
             /\ Len(sandwich_collections') = n + Cardinality(missing)
             /\ SubSeq(sandwich_collections', 1, n) = sandwich_collections
             /\ imported_count' = Cardinality(missing)
             /\ \A k \in (n + 1)..Len(sandwich_collections') :
                   /\ sandwich_collections'[k].host_name = "Groups"
                   /\ << sandwich_collections'[k].collection_date,
                         sandwich_collections'[k].individual_sandwiches >> \in missing
             /\ \A m \in missing :
                   Cardinality({k \in (n + 1)..Len(sandwich_collections') :
                                   << sandwich_collections'[k].collection_date,
                                      sandwich_collections'[k].individual_sandwiches >> = m}) = 1
             /\ last_import = "groups" => (missing = {} /\ imported_count' = 0)
             /\ OneGroupsRecord(sandwich_collections) => OneGroupsRecord(sandwich_collections')
    ]_vars

\* C28 witness: the CSV holds the same row twice, the table holds one
\* 'Groups' row for it, and the last run, a second one, inserted nothing.
C28_SecondRunInsertedNothing ==
    /\ last_import = "groups"
    /\ imported_count = 0
    /\ table_before = sandwich_collections
    /\ Len(csv_file) = 2 /\ csv_file[1] = csv_file[2]
    /\ Cardinality({k \in DOMAIN sandwich_collections :
                        /\ sandwich_collections[k].host_name = "Groups"
                        /\ sandwich_collections[k].collection_date = csv_file[1].Collection_Date
                        /\ sandwich_collections[k].individual_sandwiches
                             = csv_file[1].Individual_Sandwiches[1]}) = 1

\* --------------------------------------------- the restored conversations
OneGroupPerName(table) ==
    \A i, j \in DOMAIN table :
       (table[i].type = "group" /\ table[j].type = "group" /\ table[i].name = table[j].name)
       => i = j

\* C29 as claimed: after a run of restore_group_conversations every group
\* name has at most one conversation, and a second run restores no group.
C29_NoDuplicateGroups ==
    /\ restore_runs >= 1 => OneGroupPerName(conversations)
    /\ restore_runs >= 2 => restored_groups = 0
====
